---- MODULE Spec2Model ----
(***************************************************************************)
(* kemono-dl: one run of main() after another over the same working        *)
(* directory.  A run fetches the profile, passes the update gate, walks    *)
(* the post listing page by page, then fetches, saves and downloads every  *)
(* post.  Each HTTP attempt is one step; the server's answer to it is      *)
(* chosen nondeterministically.                                            *)
(*                                                                         *)
(* Sources: src/Makefile (api.go: fetchProfile, fetchPostsWithPagination,  *)
(* fetchPostsPage, fetchDetailedPost), src/downloader.go,                  *)
(* src/unnamed/part_002 (main, shouldUpdateProfile), src/http_client.go.   *)
(***************************************************************************)
EXTENDS Integers, Sequences, FiniteSets, TLC

VARIABLES
    pc,          \* where the run is: idle, profile, gate, saveProfile, page,
                 \* detail, savePost, file, atts, download, stream, exit
    exit,        \* "running", "ok" (status 0), "fatal" (log.Fatalf), "killed"
    run,         \* number of runs started so far
    flags,       \* of the current run: [force, skipDownload, timeout: the
                 \* global DownloadTimeout, in minutes, and url: the argument]
    srv,         \* the remote side: [total posts of the creator, profile name,
                 \* the profile's updated timestamp]
    disk,        \* the working directory (persists across runs)
    profileData, \* main's profileData: the fetched remote profile
    walk,        \* locals of fetchPostsWithPagination
    posts,       \* main's posts, the walker's result
    walkRes,     \* what fetchPostsWithPagination returned: "none" (not yet),
                 \* "ok" (a list), "err" (nil and an error)
    idx,         \* loop index of fetchAndSaveDetailedPosts (1-based)
    detail,      \* detailedPost of the post being processed
    slot,        \* 0: the post's primary file, k >= 1: its k-th attachment
    call,        \* the single logical call in progress or last finished
    hist,        \* per-run observations: page offsets requested, request
                 \* kinds issued, kinds of file written
    rl           \* the RateLimiter under concurrent callers: the clock, its
                 \* fields and where each caller is in Wait

vars == <<pc, exit, run, flags, srv, disk, profileData, walk, posts, walkRes,
          idx, detail, slot, call, hist, rl>>

-----------------------------------------------------------------------------
(* Program constants *)

pageSize == 50
pageMaxRetries == 3
retryDelay == 2
maxRetries == 5
detailMaxRetries == 5
dlMaxRetries == 5
initialBackoff == 1
StatusOK == 200
StatusTooManyRequests == 429
\* Minutes: the initial value of DownloadTimeout (and the default of
\* --timeout), and the Timeout of the http.Client that downloadFileFromPath
\* creates for each attempt.
DefaultTimeout == 2
ClientTimeout == 2

(* Bounds of the model *)

MaxRuns == 2

\* The sizes of the creator's listing that are explored.  Against a listing
\* of BigListings (more than one page) a run is in metadata-only mode; only
\* against a listing of RerunListings is a run followed by another run.
SmallListings == {0, 1, 2}
BigListings == {52, 150}
RerunListings == {0, 1}

PostIds == {0, 1}

\* The values of --timeout explored, in minutes.  A run with another value
\* than the default is a first run, with no other flag, against a listing of
\* one post, and is not followed by another run.
Timeouts == {DefaultTimeout, 5}
Names == {"n1", "n2"}
ProfileNames == {"alice", "zed"}
BaseURL == "https://host"

\* The remote sides explored: the creator's listing size and profile name.
Servers ==
    [total : SmallListings, name : ProfileNames, updated : {1}]
        \cup [total : BigListings, name : {"alice"}, updated : {1}]

\* status 0 stands for a transport-level failure (client.Do returned an error)
Responses ==
    [status : {StatusOK}, body : {"good", "bad"}]
        \cup [status : {0, 204, StatusTooManyRequests}, body : {"none"}]
        \cup [status : {500}, body : {"msg"}]

\* The answers explored for the detail requests, and the ways savePost's
\* I/O goes: against a listing of BigListings a detail request is answered
\* at once, with the post or with a server error, and savePost succeeds or
\* fails in writing.
DetailResponses(total) ==
    IF total \in BigListings
    THEN {r \in Responses : r.status \in {StatusOK, 500} /\ r.body # "bad"}
    ELSE Responses

SavePostIO(total) ==
    IF total \in BigListings THEN {"ok", "write"}
    ELSE {"ok", "mkdir", "open", "write"}

-----------------------------------------------------------------------------
(* The remote side *)

\* The id of the k-th post (0-based) of the creator's listing.
PostId(k) == k % Cardinality(PostIds)

Min(a, b) == IF a < b THEN a ELSE b

\* GET .../posts?o=off answered successfully: the posts off .. off+49 of the
\* listing, as many as exist.
ServerPage(total, off) ==
    LET n == IF off >= total THEN 0 ELSE Min(pageSize, total - off)
    IN  [i \in 1..n |-> off + i - 1]

\* A download target as it appears in a post ("file", or an element of
\* "attachments"), by kind: "ok" an object with string name and path,
\* "absent" no such field, "notobject" not a JSON object, "incomplete" an
\* object whose name or path is missing or not a string.
Entry(n, p) == [kind |-> "ok", name |-> n, path |-> p]
BadEntry(k) == [kind |-> k, name |-> "", path |-> ""]

\* The type assertions of downloadPostFile and downloadPostAttachments.
WellFormed(e) == e.kind = "ok"

\* DetailedPostResponse.Post, reduced to its "file" and "attachments" fields.
\* attsKind: "list", "absent" (no "attachments" field) or "notlist".
DetailShapes ==
    { [file |-> BadEntry("absent"),     attsKind |-> "absent",  atts |-> <<>>],
      [file |-> BadEntry("notobject"),  attsKind |-> "notlist", atts |-> <<>>],
      [file |-> BadEntry("incomplete"), attsKind |-> "list",
       atts |-> <<Entry("n2", "/b")>>],
      [file |-> Entry("n1", "/a"),      attsKind |-> "list",
       atts |-> <<BadEntry("notobject"), BadEntry("incomplete"),
                  Entry("n1", "/b"), Entry("n2", "/a")>>] }

NoDetail == [file |-> BadEntry("absent"), attsKind |-> "absent", atts |-> <<>>]

-----------------------------------------------------------------------------
(* The RateLimiter, http_client.go *)

\* var rateLimiter = NewRateLimiter(1)
requestsPerSecond == 1

\* The resolution of the clock: ticks per second.
Second == 2

\* minInterval: time.Second / time.Duration(requestsPerSecond)
minInterval == Second \div requestsPerSecond

\* The zero time.Time, the initial lastRequestTime: it lies more than
\* minInterval before the process started (the clock starts at 0).
ZeroTime == 0 - minInterval

\* time.Since(t) at clock reading now
Since(t, now) == now - t

\* Mutant: Wait never sleeps.
SleepForNothing(elapsed) == 0

\* if elapsed < rl.minInterval { time.Sleep(rl.minInterval - elapsed) }:
\* the duration Wait sleeps for (0: it does not sleep)
SleepFor(elapsed) == IF elapsed < minInterval THEN minInterval - elapsed ELSE 0

-----------------------------------------------------------------------------
(* The single logical call (fetchProfile, fetchPostsPage, fetchDetailedPost,  *)
(* downloadFileFromPath): its loop variable and what it did so far.           *)

\*   fn       the function called, target its argument
\*   attempt  the loop variable
\*   waits    calls of rateLimiter.Wait, reqs requests sent, resps the
\*            responses received, sleeps the backoff sleeps, in order
\*   gaps     for each Wait, the time from the call time recorded before it
\*            to the one it recorded, as far as it is below minInterval
\*   status   "running", or "ok" / "err" once it returned, err the error
\*   pre      downloadFileFromPath: the destination file before the call
\*   logged   downloadFileFromPath returned an error: what the caller's
\*            AppendFailedDownload returned, "ok" (nil) or "err", and
\*   read     how its os.ReadFile of failed.json went, "ok" or "fail"
\*   timeout  downloadFileFromPath: the Timeout of the client that sent the
\*            last request, in minutes (0: no request yet)
\*   errInfo  what the error message of a status error embeds: the status
\*            code and, except for a download, the response body
NoCall ==
    [fn |-> "none", target |-> <<>>, attempt |-> 0, waits |-> 0, reqs |-> 0,
     resps |-> <<>>, sleeps |-> <<>>, status |-> "none", err |-> "none",
     pre |-> "n/a", logged |-> "n/a", read |-> "n/a", timeout |-> 0, errInfo |-> <<>>,
     gaps |-> <<>>]

NewCall(fn, target, pre) ==
    [fn |-> fn, target |-> target, attempt |-> 1, waits |-> 0, reqs |-> 0,
     resps |-> <<>>, sleeps |-> <<>>, status |-> "running", err |-> "none",
     pre |-> pre, logged |-> "n/a", read |-> "n/a", timeout |-> 0, errInfo |-> <<>>,
     gaps |-> <<>>]

RECURSIVE Pow2(_)
Pow2(n) == IF n = 0 THEN 1 ELSE 2 * Pow2(n - 1)

\* Mutant: the backoff grows linearly.
BackoffLinear(attempt) == attempt * initialBackoff

\* time.Duration(1<<uint(attempt-1)) * initialBackoff
BackoffDuration(attempt) == Pow2(attempt - 1) * initialBackoff

\* rateLimiter.Wait() called when elapsed has passed since the call time
\* recorded last: it sleeps and records the new call time.
Waited(c, elapsed) ==
    [c EXCEPT !.waits = @ + 1,
              !.gaps = Append(@, Min(elapsed + SleepFor(elapsed), minInterval))]

\* client.Do(req) answered by r
Requested(c, r) ==
    [c EXCEPT !.reqs = @ + 1, !.resps = Append(@, r)]

\* What time.Since(rl.lastRequestTime) can be when the run calls Wait again
\* (minInterval stands for that or more): anything after a request, at
\* least the sleep after a backoff sleep or a retryDelay of the walker.
ElapsedAtWait(slept) == IF slept THEN {minInterval} ELSE 0..minInterval

\* Mutant: the 429 branch sleeps and retries without counting the attempt.
RetriedForever(c) ==
    [c EXCEPT !.sleeps = Append(@, BackoffDuration(c.attempt))]

\* The 429 branch with attempt < maxRetries: sleep, then continue the loop.
Retried(c) ==
    [c EXCEPT !.sleeps = Append(@, BackoffDuration(c.attempt)),
              !.attempt = @ + 1]

Returned(c, err) ==
    [c EXCEPT !.status = IF err = "none" THEN "ok" ELSE "err", !.err = err]

\* return nil, fmt.Errorf(...): the call ends with error err on response r;
\* "API returned status %d: %s" carries the status code and the body.
Failed(c, r, err) ==
    IF err = "status"
    THEN [Returned(c, err) EXCEPT !.errInfo = <<r.status, r.body>>]
    ELSE Returned(c, err)

\* Mutant: every 2xx status is taken for success.
FetchPageOutcome2xx(c, r) ==
    IF r.status = 0 THEN "transport"
    ELSE IF r.status = StatusTooManyRequests
         THEN IF c.attempt < maxRetries THEN "retry" ELSE "ratelimited"
    ELSE IF r.status \notin 200..299 THEN "status"
    ELSE IF r.body = "bad" THEN "decode"
    ELSE "none"

\* Mutant: a transport failure is retried like a 429.
FetchPageOutcomeRetriesTransport(c, r) ==
    IF r.status \in {0, StatusTooManyRequests}
    THEN IF c.attempt < maxRetries THEN "retry"
         ELSE IF r.status = 0 THEN "transport" ELSE "ratelimited"
    ELSE IF r.status # StatusOK THEN "status"
    ELSE IF r.body = "bad" THEN "decode"
    ELSE "none"

\* What one loop iteration of a retrying call does with response r:
\* "retry", or the error the call returns, or "none" to go on with the body.
FetchPageOutcome(c, r) ==
    IF r.status = 0 THEN "transport"
    ELSE IF r.status = StatusTooManyRequests
         THEN IF c.attempt < maxRetries THEN "retry" ELSE "ratelimited"
    ELSE IF r.status # StatusOK THEN "status"
    ELSE IF r.body = "bad" THEN "decode"
    ELSE "none"

-----------------------------------------------------------------------------
(* extractProfileConfig *)

\* The text of a URL path, piece by piece: "/" and "?" are these characters,
\* "user" is the text user, "a" any other text without "/" and "?".
PathChars == {"/", "?", "user", "a"}
MaxPathLen == 7
Paths == UNION {[1..n -> PathChars] : n \in 0..MaxPathLen}

\* The command-line argument as url.Parse sees it: ok is whether it parses;
\* path is parsedURL.Path.
URLs ==
    [ok : {TRUE}, scheme : {"https"}, host : {"host"}, path : Paths]
        \cup {[ok |-> FALSE, scheme |-> "", host |-> "", path |-> <<>>]}

\* The URL of the creator's profile page.
ProfileURL ==
    [ok |-> TRUE, scheme |-> "https", host |-> "host",
     path |-> <<"/", "a", "/", "user", "/", "a">>]

\* The index of the first sep in s, 0 if there is none.
Index(s, sep) ==
    IF \E i \in 1..Len(s) : s[i] = sep
    THEN CHOOSE i \in 1..Len(s) : s[i] = sep /\ \A j \in 1..(i - 1) : s[j] # sep
    ELSE 0

\* strings.Split(s, sep): the pieces of s between the separators (one piece,
\* s itself, if there is no separator).
RECURSIVE Split(_, _)
Split(s, sep) ==
    LET i == Index(s, sep)
    IN  IF i = 0 THEN <<s>>
        ELSE <<SubSeq(s, 1, i - 1)>> \o Split(SubSeq(s, i + 1, Len(s)), sep)

\* strings.Trim(s, cutset) for a cutset of one character
RECURSIVE Trim(_, _)
Trim(s, c) ==
    IF s # <<>> /\ Head(s) = c THEN Trim(Tail(s), c)
    ELSE IF s # <<>> /\ s[Len(s)] = c THEN Trim(SubSeq(s, 1, Len(s) - 1), c)
    ELSE s

\* The nil *ProfileConfig returned with an error.
NoProfile(err) == [err |-> err, BaseURL |-> <<>>, Service |-> <<>>, UserID |-> <<>>]

\* len(pathParts) < 3 does not hold
EnoughParts(pathParts) == Len(pathParts) >= 3

\* extractProfileConfig: err is "none" or the error returned.
extractProfileConfig(profileURL) ==
    IF ~profileURL.ok THEN NoProfile("invalid")
    ELSE LET path == Split(profileURL.path, "?")[1]
             pathParts == Split(Trim(path, "/"), "/")
         IN  IF ~EnoughParts(pathParts) \/ pathParts[2] # <<"user">>
             THEN NoProfile("format")
             ELSE IF pathParts[1] = <<>> \/ pathParts[3] = <<>>
             THEN NoProfile("empty")
             ELSE [err |-> "none",
                   BaseURL |-> <<profileURL.scheme, "://", profileURL.host>>,
                   Service |-> pathParts[1],
                   UserID |-> pathParts[3]]

\* The arguments explored for a run: any URL for the first run against the
\* empty listing of "alice", the profile's URL otherwise.
URLsFor(r, s) ==
    IF r = 0 /\ s.total = 0 /\ s.name = "alice" THEN URLs ELSE {ProfileURL}

-----------------------------------------------------------------------------
(* The working directory *)

EmptyDisk ==
    [dir |-> FALSE,
     snapshot |-> [state |-> "absent", Updated |-> 0],
     postJson |-> [p \in PostIds |-> "absent"],
     files |-> [t \in PostIds \X Names |-> "absent"],
     failed |-> [state |-> "absent", list |-> <<>>]]

\* Observations of the current run:
\*   reqOffsets  the distinct page offsets requested, in order
\*   fetched     the offsets of the pages fetched successfully, in order
\*   kinds       the kinds of request sent, writes the kinds of file written
\*   failedUrls  the URLs whose download failed in the post last downloaded
\*   logErr      whether an AppendFailedDownload of that post returned an
\*               error or could not read the list
\*   gate        what shouldUpdateProfile returned: "none" (not called yet),
\*               "proceed" (true), "skip" (false) or "error"
\*   detailed    the posts fetchDetailedPost was called for, in order
\*   attempted   the slots of the post last downloaded that
\*               downloadFileFromPath was called for, in order
\*   failedSlots those of them for which it returned an error
\*   saved       the call of savePost for the post last fetched: the index
\*               of the post in the list and the result, "ok" (nil) or "err"
\*   start       in metadata-only mode: the media files and failed.json as
\*               they were when the run started
\*   profile     main's profile: what extractProfileConfig returned
\*   prev        the run before, if there was one: whether its walker
\*               returned an error, and the profile's updated timestamp at
\*               the time
NoHist ==
    [reqOffsets |-> <<>>, fetched |-> <<>>, kinds |-> {}, writes |-> {},
     failedUrls |-> {}, logErr |-> FALSE, gate |-> "none", detailed |-> <<>>,
     attempted |-> <<>>, failedSlots |-> {}, saved |-> [idx |-> 0, res |-> "none"],
     start |-> [files |-> EmptyDisk.files, failed |-> EmptyDisk.failed],
     profile |-> NoProfile("none"),
     prev |-> [walkFailed |-> FALSE, updated |-> 0]]

\* fetchPostsWithPagination's locals; attempt is the outer loop's variable,
\* failed the fetchPostsPage calls that failed for the current page, delays
\* the retryDelay sleeps made for it, reqs the requests sent for it while
\* the walker is at it, and hard whether each of them was answered with a
\* status other than 200 and 429 or with a body that does not decode.
NoWalk ==
    [offset |-> 0, pageNumber |-> 1, attempt |-> 1, failed |-> 0,
     delays |-> <<>>, allPosts |-> <<>>, reqs |-> 0, hard |-> TRUE]

\* os.ReadDir returns the entries sorted by file name.
NameRank(n) ==
    CASE n = "alice" -> 1
      [] n = "failed" -> 2
      [] n = "zed" -> 3

\* The *.json files directly in the profile directory.
JsonFiles(d, profileName) ==
    (IF d.snapshot.state # "absent" THEN {profileName} ELSE {})
        \cup (IF d.failed.state # "absent" THEN {"failed"} ELSE {})

\* shouldUpdateProfile: "proceed", "skip" or "error"
shouldUpdateProfile(d, profileName, newUpdated, forceUpdate) ==
    IF forceUpdate THEN "proceed"
    ELSE IF ~d.dir THEN "proceed"
    ELSE LET js == JsonFiles(d, profileName) IN
         IF js = {} THEN "proceed"
         ELSE LET first == CHOOSE n \in js : \A m \in js : NameRank(n) <= NameRank(m)
              IN  IF first = "failed" THEN "error"  \* not a ProfileResponse object
                  ELSE IF d.snapshot.state = "corrupt" THEN "error"
                  ELSE IF d.snapshot.Updated = newUpdated THEN "skip"
                  ELSE "proceed"

-----------------------------------------------------------------------------
(* The shared RateLimiter and its callers *)

\* The goroutines that call Wait on the shared instance, and how long the
\* clock is followed.
Callers == {1, 2, 3}
MaxTime == 6

\* Where a caller is in Wait: "out" (not in it), "locked" (past Lock),
\* "sleeping" (in time.Sleep until wake), "woken" (past the sleep, or it did
\* not sleep), "recorded" (lastRequestTime written; Unlock is due).
\*   now     the clock
\*   lastRequestTime, mu  the fields; mu is 0 or the caller holding the mutex
\*   at, wake  per caller
\*   times   the values written to lastRequestTime, in the order written
RLInit ==
    [now |-> 0, lastRequestTime |-> ZeroTime, mu |-> 0,
     at |-> [p \in Callers |-> "out"], wake |-> [p \in Callers |-> 0],
     times |-> <<>>]

-----------------------------------------------------------------------------
Init ==
    /\ pc = "idle"
    /\ exit = "running"
    /\ run = 0
    /\ flags = [force |-> FALSE, skipDownload |-> FALSE, timeout |-> DefaultTimeout,
                url |-> ProfileURL]
    /\ srv \in Servers
    /\ disk = EmptyDisk
    /\ profileData = [Updated |-> 0]
    /\ walk = NoWalk
    /\ posts = <<>>
    /\ walkRes = "none"
    /\ idx = 0
    /\ detail = NoDetail
    /\ slot = 0
    /\ call = NoCall
    /\ hist = NoHist
    /\ rl = RLInit

\* Mutant: the run ends with status 0.
FatalExitsZero == pc' = "exit" /\ exit' = "ok"

\* log.Fatalf
Fatal == pc' = "exit" /\ exit' = "fatal"

\* How many runs are explored against a listing of the given size.
RunsFor(total) == IF total \in RerunListings THEN MaxRuns ELSE 1

\* main() up to the profile request: flag parsing and extractProfileConfig.
\* Between two runs the creator may have updated the profile.  A run with
\* another argument than the profile's URL has no flags and is not followed
\* by another run.
StartRun ==
    /\ pc \in {"idle", "exit"}
    /\ run < RunsFor(srv.total)
    /\ flags.timeout = DefaultTimeout
    /\ flags.url = ProfileURL
    /\ run' = run + 1
    /\ \E u \in {srv.updated, srv.updated + 1} :
          /\ (run = 0 => u = srv.updated)
          /\ srv' = [srv EXCEPT !.updated = u]
    /\ \E f \in BOOLEAN, s \in BOOLEAN, t \in Timeouts, u \in URLsFor(run, srv) :
          /\ (srv.total \in BigListings => s)
          /\ (t # DefaultTimeout => run = 0 /\ srv.total = 1 /\ ~f /\ ~s)
          /\ (u # ProfileURL => ~f /\ ~s /\ t = DefaultTimeout)
          /\ flags' = [force |-> f, skipDownload |-> s, timeout |-> t, url |-> u]
          /\ LET profile == extractProfileConfig(u)
                 h == IF s THEN [NoHist EXCEPT !.start = [files |-> disk.files,
                                                          failed |-> disk.failed]]
                      ELSE NoHist
             IN  /\ hist' = [h EXCEPT !.profile = profile,
                                      !.prev = [walkFailed |-> walkRes = "err",
                                                updated |-> IF run = 0 THEN 0
                                                            ELSE srv.updated]]
                 /\ IF profile.err = "none"
                    THEN pc' = "profile" /\ exit' = "running"
                    ELSE Fatal
    /\ profileData' = [Updated |-> 0]
    /\ walk' = NoWalk
    /\ posts' = <<>>
    /\ walkRes' = "none"
    /\ idx' = 0
    /\ detail' = NoDetail
    /\ slot' = 0
    /\ call' = NoCall
    /\ UNCHANGED <<disk, rl>>

\* fetchProfile and main's reaction to its result.
FetchProfile ==
    /\ pc = "profile"
    /\ \E r \in Responses :
          LET c == Requested(Waited(NewCall("fetchProfile", <<>>, "n/a"),
                                    Since(ZeroTime, 0)), r)
              err == IF r.status = 0 THEN "transport"
                     ELSE IF r.status # StatusOK THEN "status"
                     ELSE IF r.body = "bad" THEN "decode"
                     ELSE "none"
          IN  /\ call' = Failed(c, r, err)
              /\ IF err = "none"
                 THEN /\ profileData' = [Updated |-> srv.updated]
                      /\ pc' = "gate"
                      /\ exit' = exit
                 ELSE /\ profileData' = profileData
                      /\ Fatal
    /\ hist' = [hist EXCEPT !.kinds = @ \cup {"profile"}]
    /\ UNCHANGED <<run, flags, srv, disk, walk, posts, walkRes, idx, detail, slot, rl>>

\* Mutant: the run goes on after the gate said skip.
AfterGateGoesOn(shouldUpdate) == "saveProfile"

\* if !shouldUpdate { log.Println("Nothing to download"); return }: where
\* main goes after the gate's decision.
AfterGate(shouldUpdate) == IF shouldUpdate = "skip" THEN "exit" ELSE "saveProfile"

\* main: shouldUpdateProfile and the three ways on from it.
UpdateGate ==
    /\ pc = "gate"
    /\ LET g == shouldUpdateProfile(disk, srv.name, profileData.Updated, flags.force)
       IN  /\ IF g = "error" THEN Fatal
              ELSE /\ pc' = AfterGate(g)
                   /\ exit' = IF AfterGate(g) = "exit" THEN "ok" ELSE exit
           /\ hist' = [hist EXCEPT !.gate = g]
    /\ UNCHANGED <<run, flags, srv, disk, profileData, walk, posts, walkRes, idx,
                   detail, slot, call, rl>>

\* saveProfile: MkdirAll, then os.WriteFile of {name}.json; any error is fatal.
SaveProfile ==
    /\ pc = "saveProfile"
    /\ \E io \in {"ok", "mkdir", "open", "write"} :
          /\ disk' = CASE io = "ok" ->
                            [disk EXCEPT !.dir = TRUE,
                                         !.snapshot = [state |-> "ok",
                                                       Updated |-> profileData.Updated]]
                       [] io = "mkdir" -> disk
                       [] io = "open" -> [disk EXCEPT !.dir = TRUE]
                       [] io = "write" ->
                            [disk EXCEPT !.dir = TRUE,
                                         !.snapshot = [state |-> "corrupt", Updated |-> 0]]
          /\ (io = "mkdir" => ~disk.dir)
          /\ IF io = "ok"
             THEN /\ pc' = "page"
                  /\ exit' = exit
                  /\ hist' = [hist EXCEPT !.writes = @ \cup {"snapshot"}]
             ELSE /\ Fatal
                  /\ hist' = hist
    /\ UNCHANGED <<run, flags, srv, profileData, walk, posts, walkRes, idx, detail,
                   slot, call, rl>>

-----------------------------------------------------------------------------
(* fetchPostsWithPagination *)

\* Mutant: the page number is advanced instead of the offset.
NextOffsetByOne(offset) == offset + 1

\* offset += pageSize
NextOffset(offset) == offset + pageSize

\* Mutant: the short-page check is missing.
IsLastPageNever(page) == FALSE

\* len(posts) < pageSize: the page was the last one
IsLastPage(page) == Len(page) < pageSize

\* Mutant: the pages accumulated so far are returned with the error.
WalkerErrorResultPartial(allPosts) == allPosts

\* return nil, fmt.Errorf("failed to fetch page ...")
WalkerErrorResult(allPosts) == <<>>

\* Mutant: the outer loop makes a fourth attempt.
MayRetryPageOnceMore(attempt) == attempt < pageMaxRetries + 1

\* The outer retry loop may run another attempt.
MayRetryPage(attempt) == attempt < pageMaxRetries

\* The errors of fetchPostsPage that come from a response: a status other
\* than 200 and 429, a body that does not decode.
IsHardError(err) == err \in {"status", "decode"}

\* Mutant: only a transport failure and an exhausted 429 budget are retried.
RetriesPageIfTransient(attempt, err) ==
    MayRetryPage(attempt) /\ err \in {"transport", "ratelimited"}

\* if err == nil { break }; if attempt < maxRetries { ...Sleep }: after a
\* failed call the walker makes another attempt, whatever the error is.
RetriesPage(attempt, err) == MayRetryPage(attempt)

\* fetchAndSaveDetailedPosts moves on to posts[i], or returns nil after the
\* last post and main ends with status 0.
GoToPost(ps, i) ==
    /\ idx' = i
    /\ detail' = NoDetail
    /\ slot' = 0
    /\ IF i <= Len(ps)
       THEN pc' = "detail" /\ exit' = exit
       ELSE pc' = "exit" /\ exit' = "ok"

Observed(h, kind, off) ==
    [h EXCEPT !.kinds = @ \cup {kind},
              !.reqOffsets = IF kind = "page" /\ (@ = <<>> \/ @[Len(@)] # off)
                             THEN Append(@, off) ELSE @]

\* One iteration of fetchPostsPage's loop, and, when fetchPostsPage returns,
\* the rest of the walker's loop body (and of main, when the walker returns).
FetchPostsPage ==
    /\ pc = "page"
    /\ \E r \in Responses, e \in ElapsedAtWait(IF call.status = "running"
                                                THEN call.sleeps # <<>>
                                                ELSE walk.delays # <<>>) :
          LET c0 == IF call.status = "running" THEN call
                    ELSE NewCall("fetchPostsPage", <<walk.offset>>, "n/a")
              c == Requested(Waited(c0, e), r)
              out == FetchPageOutcome(c, r)
              page == ServerPage(srv.total, walk.offset)
              h == Observed(hist, "page", walk.offset)
          IN  CASE out = "retry" ->
                     /\ call' = Retried(c)
                     /\ hist' = h
                     /\ walk' = [walk EXCEPT !.reqs = @ + 1, !.hard = FALSE]
                     /\ UNCHANGED <<pc, exit, posts, walkRes, idx, detail, slot>>
                [] out = "none" /\ Len(page) # 0 /\ ~IsLastPage(page) ->
                     /\ call' = Returned(c, "none")
                     /\ hist' = [h EXCEPT !.fetched = Append(@, walk.offset)]
                     /\ walk' = [walk EXCEPT !.allPosts = @ \o page,
                                             !.offset = NextOffset(@),
                                             !.pageNumber = @ + 1,
                                             !.attempt = 1,
                                             !.failed = 0,
                                             !.delays = <<>>,
                                             !.reqs = 0,
                                             !.hard = TRUE]
                     /\ UNCHANGED <<pc, exit, posts, walkRes, idx, detail, slot>>
                [] out = "none" /\ (Len(page) = 0 \/ IsLastPage(page)) ->
                     /\ call' = Returned(c, "none")
                     /\ hist' = [h EXCEPT !.fetched = Append(@, walk.offset)]
                     /\ walk' = [walk EXCEPT !.allPosts = @ \o page, !.reqs = 0,
                                             !.hard = TRUE]
                     /\ posts' = walk.allPosts \o page
                     /\ walkRes' = "ok"
                     /\ GoToPost(walk.allPosts \o page, 1)
                [] out \notin {"retry", "none"} /\ RetriesPage(walk.attempt, out) ->
                     /\ call' = Failed(c, r, out)
                     /\ hist' = h
                     /\ walk' = [walk EXCEPT !.attempt = @ + 1,
                                             !.failed = @ + 1,
                                             !.delays = Append(@, retryDelay),
                                             !.reqs = @ + 1,
                                             !.hard = @ /\ IsHardError(out)]
                     /\ UNCHANGED <<pc, exit, posts, walkRes, idx, detail, slot>>
                [] out \notin {"retry", "none"} /\ ~RetriesPage(walk.attempt, out) ->
                     /\ call' = Failed(c, r, out)
                     /\ hist' = h
                     /\ posts' = WalkerErrorResult(walk.allPosts)
                     /\ walkRes' = "err"
                     /\ walk' = [walk EXCEPT !.failed = @ + 1, !.reqs = @ + 1,
                                             !.hard = @ /\ IsHardError(out)]
                     /\ Fatal
                     /\ UNCHANGED <<idx, detail, slot>>
    /\ UNCHANGED <<run, flags, srv, disk, profileData, rl>>

-----------------------------------------------------------------------------
(* fetchAndSaveDetailedPosts *)

\* The id of the post the loop is at.
CurrentPost == PostId(posts[idx])

\* Mutant: the failed post is processed again.
RetryAfterFailure(i, n) == i

\* Mutant: a failed post ends the loop (break).
BreakAfterFailure(i, n) == n + 1

\* `continue` after a failed detail fetch or savePost: the index of the post
\* the loop goes on with, n being len(posts).
ContinueAfterFailure(i, n) == i + 1

\* Mutant: a server error is retried like a 429.
FetchDetailOutcomeRetries5xx(c, r) ==
    IF r.status = 0 THEN "transport"
    ELSE IF r.status \in {StatusTooManyRequests, 500}
         THEN IF c.attempt < detailMaxRetries THEN "retry" ELSE "ratelimited"
    ELSE IF r.status # StatusOK THEN "status"
    ELSE IF r.body = "bad" THEN "decode"
    ELSE "none"

FetchDetailOutcome(c, r) ==
    IF r.status = 0 THEN "transport"
    ELSE IF r.status = StatusTooManyRequests
         THEN IF c.attempt < detailMaxRetries THEN "retry" ELSE "ratelimited"
    ELSE IF r.status # StatusOK THEN "status"
    ELSE IF r.body = "bad" THEN "decode"
    ELSE "none"

\* One iteration of fetchDetailedPost's loop; on an error the post is skipped.
FetchDetailedPost ==
    /\ pc = "detail"
    /\ \E r \in DetailResponses(srv.total),
          e \in ElapsedAtWait(call.status = "running" /\ call.sleeps # <<>>) :
          LET c0 == IF call.status = "running" THEN call
                    ELSE NewCall("fetchDetailedPost", <<CurrentPost>>, "n/a")
              c == Requested(Waited(c0, e), r)
              out == FetchDetailOutcome(c, r)
          IN  CASE out = "retry" ->
                     /\ call' = Retried(c)
                     /\ UNCHANGED <<pc, exit, idx, detail, slot>>
                [] out = "none" ->
                     /\ call' = Returned(c, "none")
                     /\ \E d \in DetailShapes : detail' = d
                     /\ pc' = "savePost"
                     /\ UNCHANGED <<exit, idx, slot>>
                [] OTHER ->
                     /\ call' = Failed(c, r, out)
                     /\ GoToPost(posts, ContinueAfterFailure(idx, Len(posts)))
    /\ hist' = [Observed(hist, "detail", 0) EXCEPT
                   !.detailed = IF call.status = "running" THEN @
                                ELSE Append(@, posts[idx]),
                   !.saved = IF call.status = "running" THEN @
                             ELSE [idx |-> 0, res |-> "none"]]
    /\ UNCHANGED <<run, flags, srv, disk, profileData, walk, posts, walkRes, rl>>

\* Mutant: the skip-download check is missing.
SkipsDownloadNever(skipDownload) == FALSE

\* if skipDownload { ...; continue }
SkipsDownload(skipDownload) == skipDownload

\* savePost, and the skip-download check that follows it.
SavePost ==
    /\ pc = "savePost"
    /\ \E io \in SavePostIO(srv.total) :
          /\ (io = "mkdir" => disk.postJson[CurrentPost] = "absent")
          /\ disk' = CASE io = "ok" ->
                            [disk EXCEPT !.postJson[CurrentPost] = "complete"]
                       [] io = "write" ->
                            [disk EXCEPT !.postJson[CurrentPost] = "partial"]
                       [] OTHER -> disk
          /\ IF io = "ok"
             THEN /\ hist' = [hist EXCEPT !.writes = @ \cup {"post"},
                                          !.failedUrls = {},
                                          !.logErr = FALSE,
                                          !.attempted = <<>>,
                                          !.failedSlots = {},
                                          !.saved = [idx |-> idx, res |-> "ok"]]
                  /\ IF SkipsDownload(flags.skipDownload)
                     THEN GoToPost(posts, idx + 1)
                     ELSE /\ pc' = "file"
                          /\ UNCHANGED <<exit, idx, detail, slot>>
             ELSE /\ hist' = [hist EXCEPT !.saved = [idx |-> idx, res |-> "err"]]
                  /\ GoToPost(posts, ContinueAfterFailure(idx, Len(posts)))
    /\ UNCHANGED <<run, flags, srv, profileData, walk, posts, walkRes, call, rl>>

-----------------------------------------------------------------------------
(* The FailureLog, failed.json *)

URL(path) == <<BaseURL, path>>

InSeq(x, q) == \E i \in 1..Len(q) : q[i] = x

\* AppendFailedDownload on failed.json in state f; rd is how os.ReadFile
\* goes on a file that is there ("ok" or "fail": the list starts empty), w
\* how os.WriteFile goes: "ok", "open" (fails before truncating) or "write"
\* (fails after).
\* Mutant: the URL is appended without looking for it in the list.
AppendAlways(f, url, rd, w) ==
    LET failedList == IF f.state = "ok" /\ rd = "ok" THEN f.list ELSE <<>>
    IN  CASE w = "ok" ->
               [file |-> [state |-> "ok", list |-> Append(failedList, url)],
                err |-> FALSE]
          [] w = "open" -> [file |-> f, err |-> TRUE]
          [] w = "write" ->
               [file |-> [state |-> "corrupt", list |-> <<>>], err |-> TRUE]

\* Mutant: only the last entry of the list is compared with the URL.
AppendUnlessLast(f, url, rd, w) ==
    LET failedList == IF f.state = "ok" /\ rd = "ok" THEN f.list ELSE <<>>
    IN  IF failedList # <<>> /\ failedList[Len(failedList)] = url
        THEN [file |-> f, err |-> FALSE]
        ELSE CASE w = "ok" ->
                    [file |-> [state |-> "ok", list |-> Append(failedList, url)],
                     err |-> FALSE]
               [] w = "open" -> [file |-> f, err |-> TRUE]
               [] w = "write" ->
                    [file |-> [state |-> "corrupt", list |-> <<>>], err |-> TRUE]

\* Mutant: the existing list is not read; the file is overwritten.
AppendOverwrites(f, url, rd, w) ==
    CASE w = "ok" -> [file |-> [state |-> "ok", list |-> <<url>>], err |-> FALSE]
      [] w = "open" -> [file |-> f, err |-> TRUE]
      [] w = "write" -> [file |-> [state |-> "corrupt", list |-> <<>>], err |-> TRUE]

\* The result is the file afterwards and whether an error is returned.
AppendFailedDownload(f, url, rd, w) ==
    LET failedList == IF f.state = "ok" /\ rd = "ok" THEN f.list ELSE <<>>
    IN  IF InSeq(url, failedList) THEN [file |-> f, err |-> FALSE]
        ELSE CASE w = "ok" ->
                    [file |-> [state |-> "ok", list |-> Append(failedList, url)],
                     err |-> FALSE]
               [] w = "open" -> [file |-> f, err |-> TRUE]
               [] w = "write" ->
                    [file |-> [state |-> "corrupt", list |-> <<>>], err |-> TRUE]

-----------------------------------------------------------------------------
(* downloadPostFile, downloadPostAttachments, downloadFileFromPath *)

\* Mutant: the existence check is missing.
ExistsNever(d, post, name) == FALSE

\* Mutant: only a complete file counts as existing.
ExistsComplete(d, post, name) == d.files[<<post, name>>] = "complete"

\* os.Stat(outputPath) succeeds
Exists(d, post, name) == d.files[<<post, name>>] # "absent"

\* After a slot is done: the attachments follow the primary file, then the
\* next attachment.
NextSlot ==
    /\ slot' = slot + 1
    /\ pc' = "atts"
    /\ UNCHANGED <<exit, idx, detail>>

\* downloadFileFromPath up to its loop: returns nil at once when the file
\* exists, else enters the loop.
BeginDownload(e) ==
    LET pre == disk.files[<<CurrentPost, e.name>>]
        c == NewCall("downloadFileFromPath", <<CurrentPost, e.name, e.path>>, pre)
    IN  /\ hist' = [hist EXCEPT !.attempted = Append(@, slot)]
        /\ IF Exists(disk, CurrentPost, e.name)
           THEN /\ call' = Returned(c, "none")
                /\ NextSlot
           ELSE /\ call' = c
                /\ pc' = "download"
                /\ UNCHANGED <<exit, idx, detail, slot>>

\* Mutant: a malformed slot ends the file work of the post.
SlotAfterMalformedStops(s, n) == n + 1

\* The slot handled after a malformed slot s, n being len(attachmentsList):
\* downloadPostFile returns nil and the attachments follow, a malformed
\* attachment is skipped by `continue`.
SlotAfterMalformed(s, n) == s + 1

\* downloadPostFile up to the call of downloadFileFromPath.
DownloadPostFile ==
    /\ pc = "file"
    /\ IF WellFormed(detail.file) /\ detail.file.name # ""
       THEN BeginDownload(detail.file)
       ELSE /\ slot' = SlotAfterMalformed(slot, Len(detail.atts))
            /\ pc' = "atts"
            /\ UNCHANGED <<exit, idx, detail, call, hist>>
    /\ UNCHANGED <<run, flags, srv, disk, profileData, walk, posts, walkRes, rl>>

\* downloadPostAttachments: the field checks, then one loop iteration up to
\* the call of downloadFileFromPath.
DownloadPostAttachments ==
    /\ pc = "atts"
    /\ IF detail.attsKind # "list" \/ slot > Len(detail.atts)
       THEN /\ GoToPost(posts, idx + 1)
            /\ UNCHANGED <<call, hist>>
       ELSE IF WellFormed(detail.atts[slot])
       THEN BeginDownload(detail.atts[slot])
       ELSE /\ slot' = SlotAfterMalformed(slot, Len(detail.atts))
            /\ pc' = "atts"
            /\ UNCHANGED <<exit, idx, detail, call, hist>>
    /\ UNCHANGED <<run, flags, srv, disk, profileData, walk, posts, walkRes, rl>>

\* Mutant: the 429 branch retries once more (attempt <= maxRetries).
DownloadOutcomeOneMore(c, r) ==
    IF r.status = 0 THEN "transport"
    ELSE IF r.status = StatusTooManyRequests
         THEN IF c.attempt <= dlMaxRetries THEN "retry" ELSE "ratelimited"
    ELSE IF r.status # StatusOK THEN "status"
    ELSE "none"

DownloadOutcome(c, r) ==
    IF r.status = 0 THEN "transport"
    ELSE IF r.status = StatusTooManyRequests
         THEN IF c.attempt < dlMaxRetries THEN "retry" ELSE "ratelimited"
    ELSE IF r.status # StatusOK THEN "status"
    ELSE "none"

\* Mutant: a failed download ends the file work of the post.
SlotAfterFailureStops(s, n) == n + 1

\* The slot handled after the download of slot s failed, n being
\* len(attachmentsList): the warning is logged and the attachments follow
\* the primary file, the next attachment follows an attachment (continue).
SlotAfterFailure(s, n) == s + 1

\* downloadFileFromPath returned err to downloadPostFile or to
\* downloadPostAttachments: the URL goes to failed.json, the error is logged.
DownloadFailed(c, err, d) ==
    /\ \E rd \in {"ok", "fail"}, w \in {"ok", "open", "write"} :
          LET url == URL(c.target[3])
              res == AppendFailedDownload(d.failed, url, rd, w)
          IN  /\ (rd = "fail" => d.failed.state = "ok" /\ d.failed.list # <<>>)
              /\ (rd = "ok" /\ d.failed.state = "ok" /\ InSeq(url, d.failed.list)
                     => w = "ok")
              /\ disk' = [d EXCEPT !.failed = res.file]
              /\ call' = [Returned(c, err) EXCEPT
                             !.logged = IF res.err THEN "err" ELSE "ok",
                             !.read = rd,
                             !.errInfo = IF err = "status"
                                         THEN <<c.resps[Len(c.resps)].status>>
                                         ELSE <<>>]
              /\ hist' = [Observed(hist, "download", 0) EXCEPT
                             !.writes = IF res.file # d.failed
                                        THEN @ \cup {"failed"} ELSE @,
                             !.failedUrls = @ \cup {url},
                             !.logErr = @ \/ res.err \/ rd = "fail",
                             !.failedSlots = @ \cup {slot}]
    /\ slot' = SlotAfterFailure(slot, Len(detail.atts))
    /\ pc' = "atts"
    /\ UNCHANGED <<exit, idx, detail>>

\* One iteration of downloadFileFromPath's loop up to os.Create.
Download ==
    /\ pc = "download"
    /\ \E r \in Responses, e \in ElapsedAtWait(call.sleeps # <<>>) :
          /\ r.body # "bad"
          /\ LET c == [Requested(Waited(call, e), r) EXCEPT !.timeout = ClientTimeout]
                 out == DownloadOutcome(c, r)
                 t == <<c.target[1], c.target[2]>>
             IN  CASE out = "retry" ->
                        /\ call' = Retried(c)
                        /\ hist' = Observed(hist, "download", 0)
                        /\ UNCHANGED <<pc, exit, idx, detail, slot, disk>>
                   [] out = "none" ->
                        \E io \in {"ok", "create"} :
                           IF io = "ok"
                           THEN /\ call' = c
                                /\ disk' = [disk EXCEPT !.files[t] = "partial"]
                                /\ hist' = Observed(hist, "download", 0)
                                /\ pc' = "stream"
                                /\ UNCHANGED <<exit, idx, detail, slot>>
                           ELSE DownloadFailed(c, "create", disk)
                   [] OTHER -> DownloadFailed(c, out, disk)
    /\ UNCHANGED <<run, flags, srv, profileData, walk, posts, walkRes, rl>>

\* Mutant: the incomplete file is not removed.
NotRemoved(d, t) == d

\* os.Remove(outputPath)
Removed(d, t) == [d EXCEPT !.files[t] = "absent"]

\* io.Copy of the body into the created file, and what follows it.
Stream ==
    /\ pc = "stream"
    /\ LET t == <<call.target[1], call.target[2]>>
       IN  \E io \in {"ok", "copy"} :
              IF io = "ok"
              THEN /\ call' = Returned(call, "none")
                   /\ disk' = [disk EXCEPT !.files[t] = "complete"]
                   /\ hist' = [hist EXCEPT !.writes = @ \cup {"media"}]
                   /\ NextSlot
              ELSE DownloadFailed(call, "write", Removed(disk, t))
    /\ UNCHANGED <<run, flags, srv, profileData, walk, posts, walkRes, rl>>

\* The process is killed while the body is being streamed to disk.
Kill ==
    /\ pc = "stream"
    /\ pc' = "exit"
    /\ exit' = "killed"
    /\ UNCHANGED <<run, flags, srv, disk, profileData, walk, posts, walkRes, idx,
                   detail, slot, call, hist, rl>>

Next ==
    \/ StartRun
    \/ FetchProfile
    \/ UpdateGate
    \/ SaveProfile
    \/ FetchPostsPage
    \/ FetchDetailedPost
    \/ SavePost
    \/ DownloadPostFile
    \/ DownloadPostAttachments
    \/ Download
    \/ Stream
    \/ Kill

Spec == Init /\ [][Next]_vars
-----------------------------------------------------------------------------
(* RateLimiter.Wait called by several goroutines at once.  The run of main   *)
(* above calls it from one goroutine only; here the shared instance is       *)
(* taken alone, each step of Wait being one step of the caller.              *)

runVars == <<pc, exit, run, flags, srv, disk, profileData, walk, posts, walkRes,
             idx, detail, slot, call, hist>>

\* Time passes.
RLTick ==
    /\ rl.now < MaxTime
    /\ rl' = [rl EXCEPT !.now = @ + 1]
    /\ UNCHANGED runVars

\* A goroutine calls Wait and arrives at rl.mu.Lock().
RLCall(p) ==
    /\ rl.at[p] = "out"
    /\ rl' = [rl EXCEPT !.at[p] = "locking"]
    /\ UNCHANGED runVars

\* Mutant: Lock does not wait for the mutex to be free.
MutexFreeAlways(mu) == TRUE

\* sync.Mutex: Lock returns only when no goroutine holds the mutex.
MutexFree(mu) == mu = 0

\* rl.mu.Lock() returns.
RLLock(p) ==
    /\ rl.at[p] = "locking"
    /\ MutexFree(rl.mu)
    /\ rl' = [rl EXCEPT !.mu = p, !.at[p] = "locked"]
    /\ UNCHANGED runVars

\* elapsed := time.Since(rl.lastRequestTime), and the sleep is begun if one
\* is due.
RLElapsed(p) ==
    /\ rl.at[p] = "locked"
    /\ LET elapsed == Since(rl.lastRequestTime, rl.now)
           d == SleepFor(elapsed)
       IN  rl' = IF d > 0
                 THEN [rl EXCEPT !.at[p] = "sleeping", !.wake[p] = rl.now + d]
                 ELSE [rl EXCEPT !.at[p] = "woken"]
    /\ UNCHANGED runVars

\* time.Sleep returns, not before the duration has passed.
RLWake(p) ==
    /\ rl.at[p] = "sleeping"
    /\ rl.now >= rl.wake[p]
    /\ rl' = [rl EXCEPT !.at[p] = "woken"]
    /\ UNCHANGED runVars

\* rl.lastRequestTime = time.Now()
RLRecord(p) ==
    /\ rl.at[p] = "woken"
    /\ rl' = [rl EXCEPT !.lastRequestTime = rl.now,
                        !.times = Append(@, rl.now),
                        !.at[p] = "recorded"]
    /\ UNCHANGED runVars

\* The deferred rl.mu.Unlock(); Wait returns.
RLUnlock(p) ==
    /\ rl.at[p] = "recorded"
    /\ rl' = [rl EXCEPT !.mu = 0, !.at[p] = "out"]
    /\ UNCHANGED runVars

InitRL == Init /\ srv.total = 0 /\ srv.name = "alice"

NextRL ==
    \/ RLTick
    \/ \E p \in Callers : RLCall(p)
    \/ \E p \in Callers : RLLock(p)
    \/ \E p \in Callers : RLElapsed(p)
    \/ \E p \in Callers : RLWake(p)
    \/ \E p \in Callers : RLRecord(p)
    \/ \E p \in Callers : RLUnlock(p)

SpecRL == InitRL /\ [][NextRL]_vars
-----------------------------------------------------------------------------
(* Properties of fetchPostsWithPagination *)

RECURSIVE ConcatPages(_, _)
ConcatPages(total, offs) ==
    IF offs = <<>> THEN <<>>
    ELSE ServerPage(total, Head(offs)) \o ConcatPages(total, Tail(offs))

\* C1: the page offsets requested are 0, 50, 100, ... in this order, an
\* offset is requested only once every offset before it has been fetched
\* successfully, the list built (and returned) is the concatenation of the
\* fetched pages in page order, and against a listing of 150 posts (full
\* pages at 0, 50, 100, an empty page at 150) the walker returns exactly the
\* posts 0..149 and has requested the offsets 0, 50, 100, 150 and no other.
C1_PagesInOrder ==
    /\ \A i \in 1..Len(hist.reqOffsets) : hist.reqOffsets[i] = (i - 1) * 50
    /\ Len(hist.fetched) >= Len(hist.reqOffsets) - 1
    /\ Len(hist.fetched) <= Len(hist.reqOffsets)
    /\ \A i \in 1..Len(hist.fetched) : hist.fetched[i] = hist.reqOffsets[i]
    /\ walk.allPosts = ConcatPages(srv.total, hist.fetched)
    /\ (walkRes = "ok" => posts = walk.allPosts)
    /\ (walkRes = "ok" /\ srv.total = 150
          => /\ posts = [i \in 1..150 |-> i - 1]
             /\ hist.reqOffsets = <<0, 50, 100, 150>>)

C1_Witness ==
    walkRes = "ok" /\ srv.total = 150 /\ Len(posts) = 150 /\ walk.offset = 150

\* C2: a successfully fetched page of n items, 0 < n < 50, is the last page
\* fetched and the last offset requested; its items end the returned list
\* and the walker has returned.
C2_ShortPageStops ==
    \A i \in 1..Len(hist.fetched) :
        LET page == ServerPage(srv.total, hist.fetched[i])
            n == Len(page)
        IN  (0 < n /\ n < 50)
                => /\ i = Len(hist.fetched)
                   /\ hist.reqOffsets[Len(hist.reqOffsets)] = hist.fetched[i]
                   /\ walkRes = "ok"
                   /\ Len(posts) >= n
                   /\ SubSeq(posts, Len(posts) - n + 1, Len(posts)) = page

C2_Witness ==
    /\ walkRes = "ok"
    /\ srv.total = 52
    /\ hist.fetched = <<0, 50>>
    /\ Len(posts) = 52

\* C3: once fetchPostsPage has failed three times for one page, the walker
\* has returned an error and an empty list (not the pages accumulated), the
\* run has ended fatally, and the run sent no post-detail request, made no
\* download request and wrote no post file and no media file.
C3_PaginationFailureIsFatal ==
    (walk.failed >= 3 \/ walkRes = "err")
        => /\ walk.failed = 3
           /\ walkRes = "err"
           /\ posts = <<>>
           /\ pc = "exit"
           /\ exit = "fatal"
           /\ idx = 0
           /\ hist.kinds \subseteq {"profile", "page"}
           /\ hist.writes \subseteq {"snapshot"}

C3_Witness ==
    /\ walkRes = "err"
    /\ Len(walk.allPosts) = 100
    /\ exit = "fatal"
-----------------------------------------------------------------------------
(* Properties of the retrying calls *)

Retrying == {"fetchPostsPage", "fetchDetailedPost", "downloadFileFromPath"}

Statuses(c) == [i \in 1..Len(c.resps) |-> c.resps[i].status]

\* All responses of the call but the last were 429 and the last was not.
EndsRateLimiting(c) ==
    /\ c.resps # <<>>
    /\ c.resps[Len(c.resps)].status # 429
    /\ \A i \in 1..(Len(c.resps) - 1) : c.resps[i].status = 429

\* C4: a call answered 429 on its attempts 1..j (j < 5) and something else
\* on attempt j+1 has slept 1, 2, 4, 8 s (the first j of them) and nothing
\* else, has sent j+1 requests, and ends as the last response says: with an
\* error on a transport failure, on a status other than 200 and on a body
\* that does not decode; with success on 200 and a good body (a download:
\* unless creating or writing the file fails).  In particular 429, 429, 200
\* succeeds on the 3rd attempt after sleeps of 1 s and 2 s.
C4_BackoffThenLastResponse ==
    (call.fn \in Retrying /\ EndsRateLimiting(call))
        => LET j == Len(call.resps) - 1
               last == call.resps[j + 1]
           IN  /\ j < 5
               /\ call.sleeps = SubSeq(<<1, 2, 4, 8>>, 1, j)
               /\ call.reqs = j + 1
               /\ call.attempt = j + 1
               /\ (last.status = 0 => call.status = "err" /\ call.err = "transport")
               /\ (last.status \notin {0, 200}
                      => call.status = "err" /\ call.err = "status")
               /\ (last.status = 200 /\ last.body = "bad"
                      => call.status = "err" /\ call.err = "decode")
               /\ (last.status = 200 /\ last.body = "good"
                      => IF call.fn = "downloadFileFromPath"
                         THEN call.err \in {"none", "create", "write"}
                         ELSE call.status = "ok")
               /\ (Statuses(call) = <<429, 429, 200>> /\ call.status = "ok"
                      => call.sleeps = <<1, 2>> /\ call.attempt = 3)

C4_Witness ==
    /\ call.fn = "downloadFileFromPath"
    /\ Statuses(call) = <<429, 429, 200>>
    /\ call.status = "ok"
    /\ call.sleeps = <<1, 2>>

\* C5: a call sends at most 5 requests, each after one rateLimiter.Wait;
\* after the 5th consecutive 429 it has returned the rate-limit error, having
\* slept 4 times (not after the 5th) and sent no 6th request.
C5_AtMostFiveRequests ==
    call.fn \in Retrying
        => /\ call.reqs <= 5
           /\ call.reqs = Len(call.resps)
           /\ call.waits = call.reqs
           /\ Len(call.sleeps) <= 4
           /\ (Len(call.resps) = 5 /\ call.resps[5].status = 429
                  => /\ call.status = "err"
                     /\ call.err = "ratelimited"
                     /\ call.sleeps = <<1, 2, 4, 8>>)

C5_Witness ==
    /\ call.fn = "fetchDetailedPost"
    /\ call.reqs = 5
    /\ call.err = "ratelimited"
    /\ Statuses(call) = <<429, 429, 429, 429, 429>>

-----------------------------------------------------------------------------
(* Properties of downloadFileFromPath and the FailureLog *)

IsDownload(c) == c.fn = "downloadFileFromPath"

\* The destination file and the URL of a downloadFileFromPath call.
Dest(c) == <<c.target[1], c.target[2]>>
UrlOf(c) == <<"https://host", c.target[3]>>

Count(x, q) == Cardinality({i \in 1..Len(q) : q[i] = x})

\* C6: a downloadFileFromPath call that found the destination file present
\* (complete or not, in any run, forced or not) has returned success without
\* a rateLimiter.Wait and without a request, and the file is as it was.
C6_ExistingFileIsSkipped ==
    (IsDownload(call) /\ call.pre # "absent")
        => /\ call.status = "ok"
           /\ call.waits = 0
           /\ call.reqs = 0
           /\ call.resps = <<>>
           /\ disk.files[Dest(call)] = call.pre

C6_Witness ==
    /\ IsDownload(call)
    /\ call.pre = "complete"
    /\ call.status = "ok"
    /\ run = 2
    /\ flags.force

C8_FailureLogHasNoDuplicates ==
    \A i, j \in 1..Len(disk.failed.list) :
        disk.failed.list[i] = disk.failed.list[j] => i = j

C8_Witness ==
    /\ disk.failed.state = "ok"
    /\ Len(disk.failed.list) = 2
    /\ run = 2

\* The post last downloaded has been processed.
PostProcessed == pc = "detail" \/ (pc = "exit" /\ exit = "ok")

InFailureLog(u) ==
    disk.failed.state = "ok" /\ \E i \in 1..Len(disk.failed.list) : disk.failed.list[i] = u

C10_NoPartialFileAfterError ==
    (IsDownload(call) /\ call.status = "err" /\ call.pre = "absent")
        => disk.files[Dest(call)] = "absent"

\* The body stream failed after the file had been created.
C10_Witness ==
    /\ IsDownload(call)
    /\ call.status = "err"
    /\ call.err = "write"
    /\ call.pre = "absent"
    /\ disk.files[Dest(call)] = "absent"

-----------------------------------------------------------------------------
(* Properties of the update gate *)

\* shouldUpdateProfile has returned and the working directory is still as it
\* found it.
GateSettled ==
    \/ hist.gate \in {"skip", "error"}
    \/ hist.gate = "proceed" /\ pc = "saveProfile"

\* C11: shouldUpdateProfile returns proceed when forced; when not forced,
\* proceed if there is no snapshot file (no directory, or none in it), skip
\* if the snapshot's timestamp equals the remote one, proceed if it differs.
C11_GateDecision ==
    GateSettled =>
        IF flags.force THEN hist.gate = "proceed"
        ELSE IF ~disk.dir \/ disk.snapshot.state = "absent" THEN hist.gate = "proceed"
        ELSE IF disk.snapshot.state = "ok"
             THEN IF disk.snapshot.Updated = profileData.Updated
                  THEN hist.gate = "skip"
                  ELSE hist.gate = "proceed"
        ELSE TRUE

\* C12: not forced, the directory there and the snapshot file corrupt: the
\* gate decides proceed and the run does not end in log.Fatalf there.
C12_CorruptSnapshotProceeds ==
    (GateSettled /\ ~flags.force /\ disk.dir /\ disk.snapshot.state = "corrupt")
        => hist.gate = "proceed" /\ exit # "fatal"

-----------------------------------------------------------------------------
(* Properties of fetchAndSaveDetailedPosts *)

InPostLoop == pc \in {"detail", "savePost", "file", "atts", "download", "stream"}

\* The number of posts fetchDetailedPost has been called for when the loop
\* is at posts[idx].
DetailCalls ==
    IF pc = "detail" /\ ~(call.fn = "fetchDetailedPost" /\ call.status = "running")
    THEN idx - 1 ELSE idx

\* C13: fetchDetailedPost is called for every post of the list, in list
\* order, whatever failed for the posts before (detail fetch, savePost,
\* downloads), and fetchAndSaveDetailedPosts returns nil: the run ends with
\* status 0.
C13_EveryPostIsFetched ==
    /\ InPostLoop => hist.detailed = SubSeq(posts, 1, DetailCalls)
    /\ (walkRes = "ok" /\ pc = "exit" /\ exit # "killed")
           => exit = "ok" /\ hist.detailed = posts

\* The first of two posts was not saved, the second was fetched and saved.
C13_Witness ==
    /\ pc = "exit"
    /\ exit = "ok"
    /\ Len(posts) = 2
    /\ hist.detailed = posts
    /\ disk.postJson[PostId(posts[1])] = "absent"
    /\ disk.postJson[PostId(posts[2])] = "complete"

\* C14: after a failed download of the primary file (slot 0) or of an
\* attachment, every well-formed attachment later in the list is attempted,
\* in list order: of the slots already passed, those after a failed one and
\* well-formed have had their downloadFileFromPath call.
C14_FailedFileDoesNotStopTheRest ==
    pc \in {"atts", "download", "stream"}
        => /\ \A i, j \in 1..Len(hist.attempted) :
                  i < j => hist.attempted[i] < hist.attempted[j]
           /\ \A s \in hist.failedSlots :
                  \A k \in (s + 1)..Len(detail.atts) :
                     (WellFormed(detail.atts[k]) /\ k < slot)
                        => InSeq(k, hist.attempted)

\* The primary file and the first well-formed attachment failed, and the
\* attachment after it was attempted; the post's file work is over.
C14_Witness ==
    /\ pc = "atts"
    /\ slot > Len(detail.atts)
    /\ hist.failedSlots = {0, 3}
    /\ hist.attempted = <<0, 3, 4>>

\* In this run no download was started and nothing of the media files and
\* of failed.json was touched.
NoDownloadWork ==
    /\ "download" \notin hist.kinds
    /\ hist.writes \cap {"media", "failed"} = {}
    /\ hist.attempted = <<>>
    /\ pc \notin {"file", "atts", "download", "stream"}
    /\ disk.files = hist.start.files
    /\ disk.failed = hist.start.failed

\* The post whose detail fetch succeeded last has been handed to savePost.
DetailWasSaved ==
    (call.fn = "fetchDetailedPost" /\ call.status = "ok" /\ pc # "savePost")
        => hist.saved.idx = idx - 1

\* C15 as stated: in metadata-only mode no download is started, no media
\* file and no failed.json is written, and the post whose detail fetch
\* succeeded last has its {postID}.json on disk.
C15_Original ==
    flags.skipDownload
        => /\ NoDownloadWork
           /\ DetailWasSaved
           /\ (hist.saved.res # "none"
                  => disk.postJson[PostId(posts[hist.saved.idx])] = "complete")

\* C15, amended: in metadata-only mode no download is started, no media
\* file and no failed.json is written, savePost is called for every post
\* whose detail fetch succeeded, and the post has its {postID}.json on disk
\* if savePost returned no error.
C15_MetadataOnly ==
    flags.skipDownload
        => /\ NoDownloadWork
           /\ DetailWasSaved
           /\ (hist.saved.res = "ok"
                  => disk.postJson[PostId(posts[hist.saved.idx])] = "complete")

\* A metadata-only run over two pages has ended; media files of an earlier
\* run aside, only the posts were written.
C15_Witness ==
    /\ flags.skipDownload
    /\ pc = "exit"
    /\ exit = "ok"
    /\ Len(posts) = 52
    /\ hist.saved = [idx |-> 52, res |-> "ok"]
    /\ hist.writes = {"snapshot", "post"}

\* The slot the post is at is malformed: the "file" field at downloadPostFile,
\* the "attachments" field or the attachment at hand at
\* downloadPostAttachments.
MalformedSlot ==
    \/ pc = "file" /\ ~WellFormed(detail.file)
    \/ /\ pc = "atts"
       /\ \/ detail.attsKind # "list"
          \/ slot <= Len(detail.atts) /\ ~WellFormed(detail.atts[slot])

\* The slots of a post that are well-formed, in order.
WellFormedSlots(d) ==
    LET IsTarget(k) == IF k = 0 THEN WellFormed(d.file) /\ d.file.name # ""
                       ELSE d.attsKind = "list" /\ WellFormed(d.atts[k])
    IN  SelectSeq([i \in 1..(Len(d.atts) + 1) |-> i - 1], IsTarget)

\* The file work of the post is over.
EndOfPost == pc = "atts" /\ (detail.attsKind # "list" \/ slot > Len(detail.atts))

\* C16: the step taken at a malformed slot sends no request, returns no
\* error, writes nothing (no failed.json entry) and goes on: to the
\* attachments after the "file" field, to the next attachment after an
\* attachment, to the next post after a malformed "attachments" field; and
\* when the file work of a post is over downloadFileFromPath has been called
\* for each of its well-formed slots.
C16_MalformedSlotIsSkipped ==
    [][/\ MalformedSlot
          => /\ call' = call /\ disk' = disk /\ hist' = hist
             /\ exit' \in {exit, "ok"}
             /\ (pc = "file" => pc' = "atts" /\ slot' = 1 /\ idx' = idx)
             /\ (pc = "atts" /\ detail.attsKind = "list"
                    => pc' = "atts" /\ slot' = slot + 1 /\ idx' = idx)
             /\ (pc = "atts" /\ detail.attsKind # "list" => idx' = idx + 1)
       /\ EndOfPost => hist.attempted = WellFormedSlots(detail)]_vars

\* The file work of a post with two malformed attachments in front of two
\* well-formed ones is over, and no download of it failed.
C16_Witness ==
    /\ EndOfPost
    /\ Len(detail.atts) = 4
    /\ ~WellFormed(detail.atts[1])
    /\ ~WellFormed(detail.atts[2])
    /\ hist.attempted = <<0, 3, 4>>
    /\ hist.failedUrls = {}

-----------------------------------------------------------------------------
(* Properties of the requests *)

\* C17: every request of downloadFileFromPath is sent by a client whose
\* Timeout is the value given with --timeout (DownloadTimeout).
C17_TimeoutOptionApplies ==
    (IsDownload(call) /\ call.reqs > 0) => call.timeout = flags.timeout

\* C18: a profile request answered 429 is retried with exponential backoff;
\* when fetchProfile has failed on a 429, it was the 5th in a row, after
\* sleeps of 1, 2, 4 and 8 s.
C18_ProfileRetriesOn429 ==
    (/\ call.fn = "fetchProfile"
     /\ call.status = "err"
     /\ call.resps[Len(call.resps)].status = StatusTooManyRequests)
        => /\ call.reqs = maxRetries
           /\ call.sleeps = <<1, 2, 4, 8>>

\* A status that is neither 2xx nor 429 (0 stands for no response at all).
IsErrorStatus(st) == st # 0 /\ st \notin 200..299 /\ st # StatusTooManyRequests

\* C19: in fetchPostsPage and fetchDetailedPost a response with a status
\* that is neither 2xx nor 429 is the last of its call: the call has returned
\* an error that carries the status code and the body, no request and no
\* sleep followed it (the sleeps are those after the 429s before it).
C19_ErrorStatusFailsAtOnce ==
    call.fn \in {"fetchPostsPage", "fetchDetailedPost"}
        => \A i \in 1..Len(call.resps) :
              IsErrorStatus(call.resps[i].status)
                 => /\ i = Len(call.resps)
                    /\ call.reqs = i
                    /\ Len(call.sleeps) = i - 1
                    /\ call.status = "err"
                    /\ call.err = "status"
                    /\ call.errInfo = <<call.resps[i].status, call.resps[i].body>>

C19_Witness ==
    /\ call.fn = "fetchDetailedPost"
    /\ Statuses(call) = <<429, 500>>
    /\ call.status = "err"
    /\ call.errInfo = <<500, "msg">>

\* The last response of the call, if it got one and has returned.
LastStatus(c) ==
    IF c.status \in {"ok", "err"} /\ c.resps # <<>>
    THEN c.resps[Len(c.resps)].status ELSE 0

AnyRequest ==
    {"fetchProfile", "fetchPostsPage", "fetchDetailedPost", "downloadFileFromPath"}

\* C20 as stated: a call whose last response had a 2xx status has not failed
\* on that status.
C20_Original ==
    (call.fn \in AnyRequest /\ LastStatus(call) \in 200..299)
        => call.err # "status"

\* C20, amended: a call whose last response had status 200 has gone on to
\* decode the body (it succeeded or failed in decoding) or, a download, to
\* create and write the file; a call whose last response had another 2xx
\* status has failed with an error carrying that status.
C20_Only200IsSuccess ==
    call.fn \in AnyRequest
        => /\ LastStatus(call) = 200
                 => IF IsDownload(call)
                    THEN call.err \in {"none", "create", "write"}
                    ELSE call.err \in {"none", "decode"}
           /\ LastStatus(call) \in 201..299
                 => /\ call.status = "err"
                    /\ call.err = "status"
                    /\ call.errInfo # <<>>
                    /\ call.errInfo[1] = LastStatus(call)

\* A page was fetched on a 200 and the detail request was answered 204.
C20_Witness ==
    /\ hist.fetched # <<>>
    /\ call.fn = "fetchDetailedPost"
    /\ Statuses(call) = <<204>>
    /\ call.err = "status"

\* C21: in fetchProfile, fetchPostsPage, fetchDetailedPost and
\* downloadFileFromPath a request that failed at the transport level is the
\* last of its call: the call has returned the error, no request and no
\* sleep followed it (the sleeps are those after the 429s before it), also
\* when it follows 429 retries of the same call.
C21_TransportFailureIsNotRetried ==
    call.fn \in AnyRequest
        => \A i \in 1..Len(call.resps) :
              call.resps[i].status = 0
                 => /\ i = Len(call.resps)
                    /\ call.reqs = i
                    /\ call.attempt = i
                    /\ Len(call.sleeps) = i - 1
                    /\ \A k \in 1..(i - 1) : call.resps[k].status = StatusTooManyRequests
                    /\ call.status = "err"
                    /\ call.err = "transport"

\* The third request for a page failed at the transport level, after two
\* 429 answers.
C21_Witness ==
    /\ call.fn = "fetchPostsPage"
    /\ Statuses(call) = <<429, 429, 0>>
    /\ call.status = "err"
    /\ call.err = "transport"
    /\ call.sleeps = <<1, 2>>

-----------------------------------------------------------------------------
(* Properties of the RateLimiter *)

\* A caller is between Lock and Unlock: it reads or writes lastRequestTime.
InWait(p) == rl.at[p] \in {"locked", "sleeping", "woken", "recorded"}

\* C22: with several goroutines calling Wait at once, in any interleaving,
\* the times recorded by two successive Waits are at least minInterval
\* apart, and a caller reads and writes lastRequestTime only while it holds
\* the mutex (so no two callers do at once).
C22_WaitSerialisesCallers ==
    /\ \A i \in 1..(Len(rl.times) - 1) :
          rl.times[i + 1] - rl.times[i] >= minInterval
    /\ \A p \in Callers : InWait(p) => rl.mu = p

\* Three Waits have returned; now one caller sleeps holding the mutex while
\* the two others wait for it.
C22_Witness ==
    /\ Len(rl.times) = 3
    /\ rl.times[3] - rl.times[2] = minInterval
    /\ \E p \in Callers :
          /\ rl.at[p] = "sleeping"
          /\ \A q \in Callers \ {p} : rl.at[q] = "locking"

-----------------------------------------------------------------------------
(* Properties of the run's use of the RateLimiter *)

\* C23: every request of a run (profile, post page, post detail, download,
\* each 429 retry included) follows a rateLimiter.Wait of its own, and the
\* call time that Wait recorded is at least minInterval (1 second) after the
\* call time recorded for the request before it.
C23_EveryRequestWaits ==
    call.fn \in AnyRequest
        => /\ call.waits = call.reqs
           /\ Len(call.gaps) = call.reqs
           /\ \A i \in 1..Len(call.gaps) : call.gaps[i] >= minInterval
           /\ (call.status \in {"ok", "err"} /\ call.resps = <<>>
                  => IsDownload(call) /\ call.pre # "absent")

\* A download request was retried after a 429: the run has sent the profile
\* request, page and detail requests and two requests for the file.
C23_Witness ==
    /\ IsDownload(call)
    /\ Statuses(call) = <<429, 200>>
    /\ call.waits = 2
    /\ hist.kinds = {"profile", "page", "detail", "download"}

-----------------------------------------------------------------------------
(* Properties of main *)

\* The run is over, not by a kill.
Ended == pc = "exit" /\ exit # "killed"

\* C24: a run that has ended after extractProfileConfig, fetchProfile and
\* fetchPostsWithPagination succeeded has ended with status 0, whatever
\* failed for its posts; a run in which extractProfileConfig, fetchProfile or
\* fetchPostsWithPagination returned an error has ended with log.Fatalf
\* (status 1), right there.
C24_OnlyTopLevelFailuresAreFatal ==
    /\ (Ended /\ walkRes = "ok") => exit = "ok"
    /\ (run > 0 /\ hist.profile.err # "none")
          => pc = "exit" /\ exit = "fatal" /\ hist.kinds = {}
    /\ (call.fn = "fetchProfile" /\ call.status = "err")
          => pc = "exit" /\ exit = "fatal" /\ hist.kinds = {"profile"}
    /\ walkRes = "err" => pc = "exit" /\ exit = "fatal"

\* A run over two posts has ended with status 0: savePost failed for the
\* first post, and downloads of the second failed.
C24_Witness ==
    /\ Ended
    /\ exit = "ok"
    /\ Len(posts) = 2
    /\ disk.postJson[PostId(posts[1])] = "partial"
    /\ hist.saved = [idx |-> 2, res |-> "ok"]
    /\ hist.failedSlots # {}

\* The segments of a URL's path: the pieces between the slashes, leading and
\* trailing slashes aside.
Segments(u) == Split(Trim(Split(u.path, "?")[1], "/"), "/")

\* The path has the shape /{service}/user/{id}.
HasProfileShape(u) ==
    /\ u.ok
    /\ Len(Segments(u)) = 3
    /\ Segments(u)[2] = <<"user">>
    /\ Segments(u)[1] # <<>>
    /\ Segments(u)[3] # <<>>

\* C25: extractProfileConfig returns {scheme://host, service, id} for a URL
\* whose path has the shape /{service}/user/{id}, and an error for every
\* other URL: fewer segments, a second segment other than "user", segments
\* after the id.
C25_ExactlyProfilePaths ==
    run > 0
        => IF HasProfileShape(flags.url)
           THEN hist.profile =
                   [err |-> "none",
                    BaseURL |-> <<flags.url.scheme, "://", flags.url.host>>,
                    Service |-> Segments(flags.url)[1],
                    UserID |-> Segments(flags.url)[3]]
           ELSE hist.profile.err # "none"

\* C26: when the gate decides skip, the run ends with status 0 there: its
\* only request was the profile request, it wrote no file and the working
\* directory is as it was; and saveProfile, the walker, the post loop and
\* the downloads run only after the gate decided proceed, the post loop only
\* after the walker returned its list, the downloads of a post only after
\* the post was fetched and saved.
C26_SkipIsNoOp ==
    [][/\ hist'.gate = "skip"
          => /\ pc' = "exit" /\ exit' = "ok"
             /\ hist'.kinds = {"profile"}
             /\ hist'.writes = {}
             /\ call'.fn = "fetchProfile" /\ call'.reqs = 1
             /\ walkRes' = "none" /\ idx' = 0
             /\ disk' = disk
       /\ (pc' \in {"saveProfile", "page", "detail", "savePost", "file", "atts",
                    "download", "stream"}
             \/ hist'.kinds \ {"profile"} # {} \/ hist'.writes # {})
          => hist'.gate = "proceed"
       /\ (idx' > 0 \/ hist'.kinds \cap {"detail", "download"} # {})
          => walkRes' = "ok"
       /\ pc' \in {"file", "atts", "download", "stream"}
          => hist'.saved = [idx |-> idx', res |-> "ok"]]_vars

\* A second run found the snapshot of the first up to date; the first had
\* downloaded a file and logged a failed download.
C26_Witness ==
    /\ hist.gate = "skip"
    /\ run = 2
    /\ exit = "ok"
    /\ disk.failed.state = "ok"
    /\ \E t \in PostIds \X Names : disk.files[t] = "complete"

\* C27: in a run that follows a run whose walker returned an error, not
\* forced and with the remote updated timestamp as it was then, the gate
\* decides proceed.
C27_FailedWalkIsWalkedAgain ==
    (/\ hist.gate # "none"
     /\ hist.prev.walkFailed
     /\ ~flags.force
     /\ hist.prev.updated = profileData.Updated)
        => hist.gate = "proceed"

\* C28: not forced, with both the snapshot file and failed.json in the
\* profile directory, the gate returns no error: skip if the snapshot's
\* timestamp equals the remote one, proceed if not, under any profile name.
C28_FailureLogDoesNotAffectGate ==
    (/\ GateSettled
     /\ ~flags.force
     /\ disk.dir
     /\ disk.snapshot.state = "ok"
     /\ disk.failed.state = "ok")
        => hist.gate = IF disk.snapshot.Updated = profileData.Updated
                       THEN "skip" ELSE "proceed"

\* C29: the walker calls fetchPostsPage at most 3 times for a page and gives
\* up exactly after the 3rd failure; each call starts at attempt 1 and sends
\* at most 5 requests whatever the calls before it did, so a page takes at
\* most 15 requests; after each failed call but the 3rd the walker sleeps 2
\* seconds; and the posts of a page fetched on the 2nd or 3rd call are in
\* the list once: the list is the listing up to the last page fetched.
C29_OuterRetryLoop ==
    /\ walk.attempt \in 1..3
    /\ walk.failed = IF walkRes = "err" THEN 3 ELSE walk.attempt - 1
    /\ walk.delays = [i \in 1..Min(walk.failed, 2) |-> 2]
    /\ walk.reqs <= 15
    /\ (call.fn = "fetchPostsPage" /\ call.status = "running")
          => /\ call.attempt = call.reqs + 1
             /\ call.reqs < 5
             /\ walk.reqs <= 5 * walk.failed + call.reqs
    /\ (pc = "page" /\ call.status # "running") => walk.reqs <= 5 * walk.failed
    /\ walk.allPosts = [i \in 1..Len(walk.allPosts) |-> i - 1]
    /\ Len(walk.allPosts) = Min(srv.total, 50 * Len(hist.fetched))

\* The second page was fetched on the 3rd call, after two calls that failed,
\* and on that call's 5th request, after four 429 answers; the walker
\* returned the 52 posts.
C29_Witness ==
    /\ walkRes = "ok"
    /\ hist.fetched = <<0, 50>>
    /\ walk.attempt = 3
    /\ walk.failed = 2
    /\ walk.delays = <<2, 2>>
    /\ call.fn = "fetchPostsPage"
    /\ Statuses(call) = <<429, 429, 429, 429, 200>>
    /\ Len(posts) = 52
    /\ pc = "detail"

\* C30: no {postID}.json ever holds a partial record: each is absent or
\* holds a complete record, the one written last or the one before.
C30_PostFileIsNeverPartial ==
    \A p \in PostIds : disk.postJson[p] # "partial"

-----------------------------------------------------------------------------
(* Properties across runs *)

\* C31: a kill while a body is streamed leaves the partly written file at
\* the destination; a partly written file that is not being streamed to
\* stays as it is through every later step; and a downloadFileFromPath call
\* that finds it returns success without a rateLimiter.Wait and without a
\* request.
C31_KilledDownloadIsSkippedLater ==
    [][/\ (exit' = "killed" /\ exit # "killed")
          => disk' = disk /\ disk.files[Dest(call)] = "partial"
       /\ \A t \in PostIds \X Names :
             (disk.files[t] = "partial" /\ ~(pc = "stream" /\ Dest(call) = t))
                => disk'.files[t] = "partial"
       /\ (IsDownload(call') /\ call'.pre = "partial")
             => /\ call'.status = "ok"
                /\ call'.waits = 0
                /\ call'.reqs = 0
                /\ call'.resps = <<>>
                /\ disk'.files[Dest(call')] = "partial"]_vars

\* The second run, not forced to skip anything, has come to the target the
\* first run was killed at.
C31_Witness ==
    /\ run = 2
    /\ IsDownload(call)
    /\ call.pre = "partial"
    /\ call.status = "ok"
    /\ call.reqs = 0
    /\ disk.files[Dest(call)] = "partial"

IsPrefix(q, r) == Len(q) <= Len(r) /\ SubSeq(r, 1, Len(q)) = q

\* C32: no step removes or reorders an entry of failed.json: the list before
\* the step is a prefix of the list after it, which is longer by one entry
\* at most, and a file that is there stays a list.
C32_FailureLogIsAppendOnly ==
    [][/\ disk.failed.state = "ok" => disk'.failed.state = "ok"
       /\ IsPrefix(disk.failed.list, disk'.failed.list)
       /\ Len(disk'.failed.list) <= Len(disk.failed.list) + 1]_vars

-----------------------------------------------------------------------------
(* Properties of the post loop's error handling *)

\* C33: the step in which savePost returns an error sends no request, leaves
\* the media files and failed.json as they are, and moves the loop to the
\* next post (to the end of the run after the last post); the loop never
\* goes back to a post, so the post is not saved again nor downloaded.
C33_UnsavedPostIsSkipped ==
    [][/\ (pc = "savePost" /\ hist'.saved.res = "err")
          => /\ idx' = idx + 1
             /\ pc' = IF idx < Len(posts) THEN "detail" ELSE "exit"
             /\ (pc' = "exit" => exit' = "ok")
             /\ call' = call
             /\ hist'.kinds = hist.kinds
             /\ hist'.attempted = hist.attempted
             /\ hist'.writes = hist.writes
             /\ disk'.files = disk.files
             /\ disk'.failed = disk.failed
       /\ run' = run => idx' \in {idx, idx + 1}
       /\ pc' \in {"file", "atts", "download", "stream"}
             => hist'.saved = [idx |-> idx', res |-> "ok"]]_vars

\* savePost failed for the first of two posts in a run that downloads; the
\* loop is at the second.
C33_Witness ==
    /\ ~flags.skipDownload
    /\ hist.saved = [idx |-> 1, res |-> "err"]
    /\ pc = "detail"
    /\ idx = 2
    /\ Len(posts) = 2
    /\ disk.files = EmptyDisk.files
    /\ disk.failed = EmptyDisk.failed

-----------------------------------------------------------------------------
(* Properties of the walker's error handling *)

\* C34: the walker retries a page after any error of fetchPostsPage: while
\* every request for a page was answered with a status other than 200 and
\* 429 or with undecodable JSON, each call failed on its only request and
\* was followed by another call, 2 seconds later, up to the 3rd; when
\* pagination has failed on such a page, the page was requested exactly 3
\* times.
C34_WalkerRetriesEveryError ==
    (walk.hard /\ walk.reqs > 0)
        => /\ walk.reqs = walk.failed
           /\ walk.reqs <= 3
           /\ call.fn = "fetchPostsPage"
           /\ call.reqs = 1
           /\ IsHardError(call.err)
           /\ IF walk.reqs < 3
              THEN /\ pc = "page"
                   /\ walkRes = "none"
                   /\ walk.attempt = walk.reqs + 1
                   /\ walk.delays = [i \in 1..walk.reqs |-> 2]
              ELSE /\ walkRes = "err"
                   /\ exit = "fatal"
                   /\ walk.delays = <<2, 2>>

\* The second page of a listing was answered three times with an error
\* response, the last one a 500, and pagination has failed.
C34_Witness ==
    /\ walkRes = "err"
    /\ walk.hard
    /\ walk.reqs = 3
    /\ walk.offset = 50
    /\ call.errInfo = <<500, "msg">>

-----------------------------------------------------------------------------
(* Properties of the download targets *)

\* The target at slot k of a post: its "file" field or its k-th attachment.
TargetAt(d, k) == IF k = 0 THEN d.file ELSE d.atts[k]

\* In the first run over an empty directory: a slot before slot s of the
\* post has the name of target e and another path, and its download
\* succeeded.
DownloadedUnderSameName(e, s) ==
    /\ run = 1
    /\ \E k \in 0..(s - 1) :
          /\ WellFormed(TargetAt(detail, k))
          /\ TargetAt(detail, k).name = e.name
          /\ TargetAt(detail, k).path # e.path
          /\ InSeq(k, hist.attempted)
          /\ k \notin hist.failedSlots

\* C35: the step that comes to a target whose file name an earlier target
\* of the post was downloaded under calls downloadFileFromPath, which
\* returns success without a request; nothing is written (no failed.json
\* entry), the file is as the earlier target left it, and the loop goes on
\* with the next slot.
C35_SameNameIsSkipped ==
    [][(/\ pc \in {"file", "atts"}
        /\ detail.attsKind = "list"
        /\ slot <= Len(detail.atts)
        /\ WellFormed(TargetAt(detail, slot))
        /\ DownloadedUnderSameName(TargetAt(detail, slot), slot))
          => /\ IsDownload(call')
             /\ call'.target[3] = TargetAt(detail, slot).path
             /\ call'.pre = "complete"
             /\ call'.status = "ok"
             /\ call'.waits = 0
             /\ call'.reqs = 0
             /\ disk' = disk
             /\ hist'.kinds = hist.kinds
             /\ hist'.failedUrls = hist.failedUrls
             /\ hist'.attempted = Append(hist.attempted, slot)
             /\ pc' = "atts"
             /\ slot' = slot + 1]_vars

\* The primary file n1 was downloaded from /a; the attachment n1 with path
\* /b has been skipped, and nothing of the post is in failed.json.
C35_Witness ==
    /\ run = 1
    /\ IsDownload(call)
    /\ call.target[2] = "n1"
    /\ call.target[3] = "/b"
    /\ call.pre = "complete"
    /\ call.reqs = 0
    /\ hist.attempted = <<0, 3>>
    /\ hist.failedSlots = {}
    /\ disk.failed.state = "absent"

-----------------------------------------------------------------------------
(* Termination of a run *)

\* The steps main() takes by itself once started: every request returns
\* (with a response or an error), every sleep ends, every file operation
\* returns.  Starting the program and killing it are the environment's.
RunStep ==
    \/ FetchProfile
    \/ UpdateGate
    \/ SaveProfile
    \/ FetchPostsPage
    \/ FetchDetailedPost
    \/ SavePost
    \/ DownloadPostFile
    \/ DownloadPostAttachments
    \/ Download
    \/ Stream

\* The run of main() as a process that is always scheduled again, against
\* the creator "alice" (the profile's name plays no part in the loops).
InitLive == Init /\ srv.name = "alice"

SpecLive == InitLive /\ [][Next]_vars /\ WF_vars(RunStep)

Running == pc \notin {"idle", "exit"}

\* The offsets a walker requests against a listing of total posts: one page
\* per 50 posts, and the page after them, which is short or empty.
PagesOf(total) == [i \in 1..(total \div pageSize + 1) |-> (i - 1) * pageSize]

\* C36: a run that was started ends; on the way every fetch or download call
\* sends at most 5 requests, every page takes at most 3 calls of
\* fetchPostsPage, the post loop and the attachment loop stay within their
\* lists, and the pages the walker requests are those the server's answers
\* lead to: up to the first page of fewer than 50 posts, the empty page after
\* a listing of 150 posts included.
C36_RunTerminates ==
    /\ [](call.fn \in Retrying => call.reqs <= maxRetries /\ call.attempt <= maxRetries)
    /\ [](walk.attempt <= pageMaxRetries)
    /\ [](idx <= Len(posts) + 1 /\ slot <= Len(detail.atts) + 1)
    /\ [](walkRes = "ok" => hist.reqOffsets = PagesOf(srv.total))
    /\ (Running ~> pc = "exit")

\* The run against the listing of 150 posts ended with status 0: the walker
\* had requested four pages, the last of them on its third call of
\* fetchPostsPage, and the post loop had passed its 150 posts.
C36_Witness ==
    /\ pc = "exit"
    /\ exit = "ok"
    /\ srv.total = 150
    /\ hist.reqOffsets = <<0, 50, 100, 150>>
    /\ walk.attempt = pageMaxRetries
    /\ Len(posts) = 150
    /\ idx = Len(posts) + 1
====
